---- MODULE Spec2Model ----
(***************************************************************************)
(* TideTimeBot: the tide service (src/src/services/tides.ts) and the       *)
(* geocoding cache (src/unnamed/part_000).                                 *)
(*                                                                         *)
(* Conventions of the model                                                *)
(*  - null is the empty sequence Null, a present value v is Some(v).       *)
(*  - A height is an integer count of a unit; `quantum' says how many      *)
(*    1e-10 m that unit is, so that the 1e-10 guard of interpolateTrend is *)
(*    computed, not assumed away.  Arithmetic on heights is exact: the     *)
(*    rounding of IEEE doubles (below a millisecond) is not modelled.      *)
(*  - A Date is its epoch value in milliseconds.  A local time string      *)
(*    "YYYY-MM-DDTHH:mm" is the record [day, hour, minute]; the date part  *)
(*    "YYYY-MM-DD" is the epoch day number.                                *)
(*  - Sequences are 1-based; the code's index i is the model's i + 1.      *)
(***************************************************************************)
EXTENDS Integers, Sequences, FiniteSets, TLC

\* ---------------------------------------------------------------- bounds
MaxLen == 4
MaxHeight == 2
FineLen == 4
NumCalls == 2

\* ------------------------------------------------------- program constants
MsPerSecond == 1000
MsPerHour == 3600000
MsPerMinute == 60000
MsPerDay == 86400000
\* 1e-10, in units of 1e-10 m
Epsilon == 1

\* 0.1 m in units of 1e-10 m
Decimetre == 1000000000

Null == << >>
Some(v) == << v >>

\* ------------------------------------------------------------------ state
\* getTides: position of the call, the two requests of Promise.all, their
\* responses, the locals nowUTC and allEvents, and the outcome.
VARIABLES pc, marine, forecast, marineResponse, forecastResponse, nowUTC,
          allEvents, result, error

\* getCoordinates: the cache file and, per call, its position, argument,
\* local cache object, coordinates and outcome.
VARIABLES cacheFile, gpc, gcity, gcache, gcoords, gresult

tideVars == << pc, marine, forecast, marineResponse, forecastResponse, nowUTC,
               allEvents, result, error >>
geoVars == << cacheFile, gpc, gcity, gcache, gcoords, gresult >>
vars == << tideVars, geoVars >>

Abs(x) == IF x < 0 THEN 0 - x ELSE x

Rising == "Rising"
Falling == "Falling"
Unknown == "Unknown"

\* ------------------------------------------------------------ Date model
\* new Date(str + "Z").getTime()
parseUTC(t) == t.day * MsPerDay + t.hour * MsPerHour + t.minute * MsPerMinute

\* date.toISOString().substring(0, 16)
toISOMinute(ms) ==
  [day |-> ms \div MsPerDay,
   hour |-> (ms % MsPerDay) \div MsPerHour,
   minute |-> (ms % MsPerHour) \div MsPerMinute]

\* date.toISOString().substring(0, 10)
toISODate(ms) == ms \div MsPerDay

\* str.startsWith(dateStr) for a "YYYY-MM-DDTHH:mm" string and a date part
startsWith(localTimeStr, dateStr) == localTimeStr.day = dateStr

\* ------------------------------------------------------ interpolateTrend
\* The code returns -b / (2a) hours with a = (y1+y3)/2 - y2, b = (y3-y1)/2.
\* With a2 = 2a = y1 + y3 - 2*y2 the value is (y1 - y3) / (2 * a2); it is
\* kept as the exact fraction num/den with den > 0.
\* Math.abs(a) < 1e-10 with a = a2 * quantum / 2 in units of 1e-10 m, i.e.
\* |a2| * quantum < 2 * Epsilon (the product is formed only when it is small).
aNegligible(a2, quantum) ==
  a2 = 0 \/ (quantum <= 2 * Epsilon /\ Abs(a2) * quantum < 2 * Epsilon)

interpolateTrendDouble(y1, y2, y3, quantum) ==
  LET a2 == y1 + y3 - 2 * y2
  IN  IF aNegligible(a2, quantum)
        THEN [num |-> 0, den |-> 1]
        ELSE IF a2 > 0 THEN [num |-> y1 - y3, den |-> a2]
                       ELSE [num |-> y3 - y1, den |-> 0 - a2]

interpolateTrend(y1, y2, y3, quantum) ==
  LET a2 == y1 + y3 - 2 * y2
  IN  IF aNegligible(a2, quantum)
        THEN [num |-> 0, den |-> 1]
        ELSE IF a2 > 0 THEN [num |-> y1 - y3, den |-> 2 * a2]
                       ELSE [num |-> y3 - y1, den |-> 0 - 2 * a2]

\* offsetHours * 3600 * 1000 added to an integral time value and clipped to
\* an integral time value by new Date(): the floor of the exact product.
offsetMs(offsetHours) == (offsetHours.num * MsPerHour) \div offsetHours.den

\* ------------------------------------------------------ findHighLowTides
isHighLoose(prev, curr, next) == curr >= prev /\ curr >= next

isHigh(prev, curr, next) == curr > prev /\ curr >= next

isLow(prev, curr, next) == curr < prev /\ curr <= next

\* let type = null; if (...) type = 'high'; else if (...) type = 'low';
classify(prev, curr, next) ==
  IF isHigh(prev, curr, next) THEN Some("high")
  ELSE IF isLow(prev, curr, next) THEN Some("low")
  ELSE Null

realTimestampPlus(finalMs, utcOffsetSeconds) ==
  finalMs + utcOffsetSeconds * MsPerSecond

\* finalDateUTC.getTime() - (utcOffsetSeconds * 1000)
realTimestamp(finalMs, utcOffsetSeconds) ==
  finalMs - utcOffsetSeconds * MsPerSecond

\* The body of the loop for one classified index i.
makeEvent(times, heights, quantum, utcOffsetSeconds, i, type) ==
  LET offsetHours == interpolateTrend(heights[i - 1], heights[i],
                                      heights[i + 1], quantum)
      baseDate == parseUTC(times[i])
      interpolatedTime == baseDate + offsetMs(offsetHours)
  IN  [time |-> realTimestamp(interpolatedTime, utcOffsetSeconds),
       localTimeStr |-> toISOMinute(interpolatedTime),
       type |-> type]

RECURSIVE findLoop(_, _, _, _, _, _)
findLoop(times, heights, quantum, utcOffsetSeconds, i, events) ==
  IF ~(i < Len(heights))
    THEN events
    ELSE LET type == classify(heights[i - 1], heights[i], heights[i + 1])
         IN  findLoop(times, heights, quantum, utcOffsetSeconds, i + 1,
                      IF type # Null
                        THEN Append(events, makeEvent(times, heights, quantum,
                                           utcOffsetSeconds, i, type[1]))
                        ELSE events)

findHighLowTides(times, heights, quantum, utcOffsetSeconds) ==
  IF Len(times) < 3 \/ Len(heights) < 3
    THEN << >>
    ELSE findLoop(times, heights, quantum, utcOffsetSeconds, 2, << >>)

\* --------------------------------------------------------------- getTides
\* arr.indexOf(x): the code's 0-based index, -1 when absent
RECURSIVE indexOfFrom(_, _, _)
indexOfFrom(arr, x, k) ==
  IF k > Len(arr) THEN 0 - 1
  ELSE IF arr[k] = x THEN k - 1
  ELSE indexOfFrom(arr, x, k + 1)

indexOf(arr, x) == indexOfFrom(arr, x, 1)

\* arr[index] of the code; undefined (out of range) is absent as well
at(arr, index) ==
  IF index + 1 \in DOMAIN arr THEN Some(arr[index + 1]) ELSE Null

todayStrUTC(now, utcOffset) == toISODate(now)

\* nowLocal.toISOString().substring(0, 10)
todayStrOf(now, utcOffset) == toISODate(now + utcOffset * MsPerSecond)

dailyFieldZero(daily, field, todayStr) ==
  IF daily # Null /\ daily[1].time # Null
    THEN LET index == indexOf(daily[1].time[1], todayStr)
         IN  IF index # 0 - 1
               THEN IF daily[1][field] # Null
                      THEN at(daily[1][field][1], index)
                      ELSE Some(0)
               ELSE Some(0)
    ELSE Some(0)

\* if (daily && daily.time) { index = daily.time.indexOf(todayStr);
\*   if (index !== -1) x = daily.field ? daily.field[index] : null; }
dailyField(daily, field, todayStr) ==
  IF daily # Null /\ daily[1].time # Null
    THEN LET index == indexOf(daily[1].time[1], todayStr)
         IN  IF index # 0 - 1
               THEN IF daily[1][field] # Null
                      THEN at(daily[1][field][1], index)
                      ELSE Null
               ELSE Null
    ELSE Null

isFuture(e, now) == e.time > now

futureEventsOf(events, now) ==
  SelectSeq(events, LAMBDA e : isFuture(e, now))

pastEventsOf(events, now) ==
  SelectSeq(events, LAMBDA e : e.time <= now)

nextTideEventLast(futureEvents) ==
  IF Len(futureEvents) > 0 THEN Some(futureEvents[Len(futureEvents)]) ELSE Null

\* futureEvents.length > 0 ? futureEvents[0] : null
nextTideEventOf(futureEvents) ==
  IF Len(futureEvents) > 0 THEN Some(futureEvents[1]) ELSE Null

trendTowardsSwapped(type) == IF type = "high" THEN Falling ELSE Rising

\* status when a next event exists
trendTowards(type) == IF type = "high" THEN Rising ELSE Falling

trendAwayFromSwapped(type) == IF type = "high" THEN Rising ELSE Falling

\* status taken from the last past event
trendAwayFrom(type) == IF type = "high" THEN Falling ELSE Rising

statusOf(nextTideEvent, events, now) ==
  IF nextTideEvent # Null
    THEN trendTowards(nextTideEvent[1].type)
    ELSE LET pastEvents == pastEventsOf(events, now)
         IN  IF Len(pastEvents) > 0
               THEN trendAwayFrom(pastEvents[Len(pastEvents)].type)
               ELSE Unknown

localTimeStrs(es) == [k \in DOMAIN es |-> es[k].localTimeStr]

\* lines 136-227: the continuation after both responses have arrived
tideData(marineData, forecastData, now) ==
  LET utcOffset == marineData.utc_offset_seconds
      events == findHighLowTides(marineData.hourly.time,
                                    marineData.hourly.sea_level_height_msl,
                                    marineData.hourly.quantum, utcOffset)
      todayStr == todayStrOf(now, utcOffset)
      todayEvents ==
        SelectSeq(events, LAMBDA e : startsWith(e.localTimeStr, todayStr))
      nextTideEvent == nextTideEventOf(futureEventsOf(events, now))
  IN  [highTides |->
         localTimeStrs(SelectSeq(todayEvents, LAMBDA e : e.type = "high")),
       lowTides |->
         localTimeStrs(SelectSeq(todayEvents, LAMBDA e : e.type = "low")),
       status |-> statusOf(nextTideEvent, events, now),
       nextTide |->
         IF nextTideEvent # Null
           THEN Some([type |-> nextTideEvent[1].type,
                      time |-> nextTideEvent[1].localTimeStr])
           ELSE Null,
       timezone |-> marineData.timezone,
       maxWaveHeight |-> dailyField(marineData.daily, "wave_height_max", todayStr),
       maxWindSpeed |-> dailyField(forecastData.daily, "wind_speed_10m_max", todayStr),
       sunrise |-> dailyField(forecastData.daily, "sunrise", todayStr),
       sunset |-> dailyField(forecastData.daily, "sunset", todayStr)]

\* ------------------------------------------------- responses of the APIs
T(d, h, m) == [day |-> d, hour |-> h, minute |-> m]

\* hourly.time: n consecutive hourly local time strings from `start'
hourlyTimes(start, n) ==
  [k \in 1..n |-> toISOMinute(parseUTC(start) + (k - 1) * MsPerHour)]

HeightSeries == UNION { [1..n -> 0..MaxHeight] : n \in 0..MaxLen }

\* heights 0.5, 1.0, 1.9, 2.0, 1.6, 0.9, 0.3, 0.6, 1.2 in decimetres
ScenarioHeights == << 5, 10, 19, 20, 16, 9, 3, 6, 12 >>

ScenarioHourly ==
  [time |-> hourlyTimes(T(2, 0, 0), Len(ScenarioHeights)),
   sea_level_height_msl |-> ScenarioHeights,
   quantum |-> Decimetre]

\* nearly flat series: heights in units of 1e-10 m
FineSeries == UNION { [1..n -> 0..MaxHeight] : n \in 3..FineLen }

Hourlies ==
  { [time |-> hourlyTimes(T(1, 22, 0), Len(hs)),
     sea_level_height_msl |-> hs,
     quantum |-> Decimetre] : hs \in HeightSeries }
  \cup
  { [time |-> hourlyTimes(T(1, 22, 0), Len(hs)),
     sea_level_height_msl |-> hs,
     quantum |-> 1] : hs \in FineSeries }
  \cup {ScenarioHourly}

UtcOffsets == {0 - 3600, 0, 3600}

FullDailyMarine ==
  Some([time |-> Some(<< 1, 2 >>), wave_height_max |-> Some(<< 0, 7 >>)])

DailyMarines ==
  { Null,
    Some([time |-> Null, wave_height_max |-> Some(<< 0, 7 >>)]),
    Some([time |-> Some(<< 1 >>), wave_height_max |-> Some(<< 7 >>)]),
    Some([time |-> Some(<< 1, 2 >>), wave_height_max |-> Null]),
    FullDailyMarine }

DailyForecasts ==
  { Null,
    Some([time |-> Some(<< 1 >>),
          wind_speed_10m_max |-> Some(<< 4 >>),
          sunrise |-> Some(<< T(1, 6, 10) >>),
          sunset |-> Some(<< T(1, 19, 40) >>)]),
    Some([time |-> Some(<< 1, 2 >>),
          wind_speed_10m_max |-> Null,
          sunrise |-> Some(<< T(1, 6, 10), T(2, 6, 11) >>),
          sunset |-> Null]),
    Some([time |-> Some(<< 1, 2 >>),
          wind_speed_10m_max |-> Some(<< 0, 4 >>),
          sunrise |-> Some(<< T(1, 6, 10), T(2, 6, 11) >>),
          sunset |-> Some(<< T(1, 19, 40), T(2, 19, 39) >>)]) }

\* every hourly series with the full daily table, and every daily table
\* with the scenario's hourly series
MarineResponses ==
  { [hourly |-> h, daily |-> FullDailyMarine, timezone |-> "Europe/Madrid",
     utc_offset_seconds |-> o] : h \in Hourlies, o \in UtcOffsets }
  \cup
  { [hourly |-> ScenarioHourly, daily |-> d, timezone |-> "Europe/Madrid",
     utc_offset_seconds |-> o] : d \in DailyMarines, o \in UtcOffsets }

ForecastResponses == { [daily |-> d] : d \in DailyForecasts }

\* values of new Date() at line 152
Nows ==
  { parseUTC(t) : t \in { T(1, 21, 0), T(1, 22, 30), T(1, 23, 0), T(1, 23, 30),
                          T(2, 0, 0), T(2, 0, 30), T(2, 1, 0), T(2, 3, 30) } }

\* ------------------------------------------------------ getTides, actions
TideInit ==
  /\ pc = "idle"
  /\ marine = "none"
  /\ forecast = "none"
  /\ marineResponse = Null
  /\ forecastResponse = Null
  /\ nowUTC = Null
  /\ allEvents = << >>
  /\ result = Null
  /\ error = Null

\* lines 108-134: both requests are issued, then the call awaits Promise.all
Call ==
  /\ pc = "idle"
  /\ pc' = "awaiting"
  /\ marine' = "pending"
  /\ forecast' = "pending"
  /\ UNCHANGED << marineResponse, forecastResponse, nowUTC,
                  allEvents, result, error, geoVars >>

MarineFulfilled ==
  /\ marine = "pending"
  /\ marine' = "fulfilled"
  /\ \E resp \in MarineResponses : marineResponse' = Some(resp)
  /\ UNCHANGED << pc, forecast, forecastResponse, nowUTC, allEvents, result,
                  error, geoVars >>

MarineRejected ==
  /\ marine = "pending"
  /\ marine' = "rejected"
  /\ UNCHANGED << pc, forecast, marineResponse, forecastResponse, nowUTC,
                  allEvents, result, error, geoVars >>

ForecastFulfilled ==
  /\ forecast = "pending"
  /\ forecast' = "fulfilled"
  /\ \E resp \in ForecastResponses : forecastResponse' = Some(resp)
  /\ UNCHANGED << pc, marine, marineResponse, nowUTC, allEvents, result,
                  error, geoVars >>

ForecastRejected ==
  /\ forecast = "pending"
  /\ forecast' = "rejected"
  /\ UNCHANGED << pc, marine, marineResponse, forecastResponse, nowUTC,
                  allEvents, result, error, geoVars >>

\* the outcome of the catch block for an axios error
absorbed ==
  [pc |-> "returned",
   result |-> Some([highTides |-> << >>, lowTides |-> << >>,
                    status |-> Unknown, nextTide |-> Null, timezone |-> "",
                    maxWaveHeight |-> Null, maxWindSpeed |-> Null,
                    sunrise |-> Null, sunset |-> Null]),
   error |-> Null]

caught == [pc |-> "thrown", result |-> Null, error |-> Some("Tide API error")]

\* Promise.all is fulfilled: lines 136-227 run to the return
Continue ==
  /\ pc = "awaiting"
  /\ marine = "fulfilled"
  /\ forecast = "fulfilled"
  /\ \E now \in Nows :
       /\ nowUTC' = Some(now)
       /\ result' = Some(tideData(marineResponse[1], forecastResponse[1], now))
  /\ allEvents' = findHighLowTides(marineResponse[1].hourly.time,
                                   marineResponse[1].hourly.sea_level_height_msl,
                                   marineResponse[1].hourly.quantum,
                                   marineResponse[1].utc_offset_seconds)
  /\ pc' = "returned"
  /\ UNCHANGED << marine, forecast, marineResponse, forecastResponse,
                  error, geoVars >>

\* Promise.all is rejected by the first rejection: lines 229-237
Catch ==
  /\ pc = "awaiting"
  /\ marine = "rejected" \/ forecast = "rejected"
  /\ pc' = caught.pc
  /\ result' = caught.result
  /\ error' = caught.error
  /\ UNCHANGED << marine, forecast, marineResponse, forecastResponse,
                  nowUTC, allEvents, geoVars >>

\* ------------------------------------------------ geocoding (part_000)
\* a city name is a sequence of characters
Char == {" ", "R", "r", "o", "O", "s"}

toLowerCaseChar(c) ==
  CASE c = "R" -> "r"
    [] c = "O" -> "o"
    [] OTHER -> c

toLowerCase(str) == [k \in DOMAIN str |-> toLowerCaseChar(str[k])]

RECURSIVE trimStart(_)
trimStart(str) ==
  IF str # << >> /\ Head(str) = " " THEN trimStart(Tail(str)) ELSE str

RECURSIVE trimEnd(_)
trimEnd(str) ==
  IF str # << >> /\ str[Len(str)] = " "
    THEN trimEnd(SubSeq(str, 1, Len(str) - 1))
    ELSE str

trim(str) == trimEnd(trimStart(str))

normalizeNoTrim(city) == toLowerCase(city)

\* city.trim().toLowerCase()
normalize(city) == toLowerCase(trim(city))

Cities == { << "R", "o" >>, << "r", "o", " " >>, << "O", "s" >>, << "s", "s" >> }

\* response.data of the search: at most one place (limit: 1)
nominatim(city) ==
  CASE normalize(city) = << "r", "o" >> ->
         << [lat |-> 41, lon |-> 12, display_name |-> "Roma"] >>
    [] normalize(city) = << "o", "s" >> ->
         << [lat |-> 59, lon |-> 10, display_name |-> "Oslo"] >>
    [] OTHER -> << >>

emptyCache == [k \in {} |-> Null]

\* cache[key] = value
put(cache, key, value) ==
  [k \in DOMAIN cache \cup {key} |-> IF k = key THEN value ELSE cache[k]]

Calls == 1..NumCalls

GeoInit ==
  /\ cacheFile = Null
  /\ gpc = [p \in Calls |-> "idle"]
  /\ gcity = [p \in Calls |-> << >>]
  /\ gcache = [p \in Calls |-> emptyCache]
  /\ gcoords = [p \in Calls |-> Null]
  /\ gresult = [p \in Calls |-> Null]

\* line 36-38: the call starts and awaits loadCache
GetCoordinates(p, city) ==
  /\ gpc[p] = "idle"
  /\ gpc' = [gpc EXCEPT ![p] = "loadCache"]
  /\ gcity' = [gcity EXCEPT ![p] = city]
  /\ gcache' = [gcache EXCEPT ![p] = emptyCache]
  /\ gcoords' = [gcoords EXCEPT ![p] = Null]
  /\ gresult' = [gresult EXCEPT ![p] = Null]
  /\ UNCHANGED << cacheFile, tideVars >>

\* lines 38-42 with the cache object that loadCache returned
afterLoad(p, cache) ==
  LET normalizedCity == normalize(gcity[p])
  IN  /\ gcache' = [gcache EXCEPT ![p] = cache]
      /\ IF normalizedCity \in DOMAIN cache
           THEN /\ gpc' = [gpc EXCEPT ![p] = "returned"]
                /\ gresult' = [gresult EXCEPT ![p] = Some(cache[normalizedCity])]
           ELSE /\ gpc' = [gpc EXCEPT ![p] = "lookup"]
                /\ UNCHANGED gresult
      /\ UNCHANGED << cacheFile, gcity, gcoords, tideVars >>

\* loadCache reads the file (or finds none)
LoadCache(p) ==
  /\ gpc[p] = "loadCache"
  /\ afterLoad(p, IF cacheFile # Null THEN cacheFile[1] ELSE emptyCache)

\* loadCache: readJson throws, the error is logged and {} is returned
LoadCacheError(p) ==
  /\ gpc[p] = "loadCache"
  /\ cacheFile # Null
  /\ afterLoad(p, emptyCache)

\* lines 45-65: a place is found and stored in the local cache object
LookupFound(p) ==
  /\ gpc[p] = "lookup"
  /\ Len(nominatim(gcity[p])) > 0
  /\ LET r == nominatim(gcity[p])[1]
         coordinates == [lat |-> r.lat, lon |-> r.lon,
                         displayName |-> r.display_name]
     IN  /\ gcoords' = [gcoords EXCEPT ![p] = Some(coordinates)]
         /\ gcache' = [gcache EXCEPT
                         ![p] = put(gcache[p], normalize(gcity[p]), coordinates)]
  /\ gpc' = [gpc EXCEPT ![p] = "saveCache"]
  /\ UNCHANGED << cacheFile, gcity, gresult, tideVars >>

\* lines 68-70: no place found
LookupNotFound(p) ==
  /\ gpc[p] = "lookup"
  /\ Len(nominatim(gcity[p])) = 0
  /\ gpc' = [gpc EXCEPT ![p] = "thrown"]
  /\ gresult' = [gresult EXCEPT ![p] = Some("City not found")]
  /\ UNCHANGED << cacheFile, gcity, gcache, gcoords, tideVars >>

\* lines 71-74: the request fails
LookupFailed(p) ==
  /\ gpc[p] = "lookup"
  /\ gpc' = [gpc EXCEPT ![p] = "thrown"]
  /\ gresult' = [gresult EXCEPT ![p] = Some("Geocoding API error")]
  /\ UNCHANGED << cacheFile, gcity, gcache, gcoords, tideVars >>

\* saveCache writes the whole local cache object, then line 67 returns
SaveCache(p) ==
  /\ gpc[p] = "saveCache"
  /\ cacheFile' = Some(gcache[p])
  /\ gpc' = [gpc EXCEPT ![p] = "returned"]
  /\ gresult' = [gresult EXCEPT ![p] = gcoords[p]]
  /\ UNCHANGED << gcity, gcache, gcoords, tideVars >>

\* saveCache: writeJson throws, the error is logged, line 67 returns
SaveCacheError(p) ==
  /\ gpc[p] = "saveCache"
  /\ gpc' = [gpc EXCEPT ![p] = "returned"]
  /\ gresult' = [gresult EXCEPT ![p] = gcoords[p]]
  /\ UNCHANGED << cacheFile, gcity, gcache, gcoords, tideVars >>

\* the handler that made the call ends; the slot serves the next message
Finish(p) ==
  /\ gpc[p] \in {"returned", "thrown"}
  /\ gpc' = [gpc EXCEPT ![p] = "idle"]
  /\ UNCHANGED << cacheFile, gcity, gcache, gcoords, gresult, tideVars >>

\* ---------------------------------------------------------- specifications
Init == TideInit /\ GeoInit

Next ==
  \/ Call
  \/ MarineFulfilled
  \/ MarineRejected
  \/ ForecastFulfilled
  \/ ForecastRejected
  \/ Continue
  \/ Catch

Spec == Init /\ [][Next]_vars

NextGeo ==
  \/ \E p \in Calls, city \in Cities : GetCoordinates(p, city)
  \/ \E p \in Calls : LoadCache(p)
  \/ \E p \in Calls : LoadCacheError(p)
  \/ \E p \in Calls : LookupFound(p)
  \/ \E p \in Calls : LookupNotFound(p)
  \/ \E p \in Calls : LookupFailed(p)
  \/ \E p \in Calls : SaveCache(p)
  \/ \E p \in Calls : SaveCacheError(p)
  \/ \E p \in Calls : Finish(p)

SpecGeo == Init /\ [][NextGeo]_vars

\* ------------------------------------------------------------- properties
\* the inputs and locals of a call that has returned
Heights == marineResponse[1].hourly.sea_level_height_msl
Times == marineResponse[1].hourly.time
Quantum == marineResponse[1].hourly.quantum
UtcOffset == marineResponse[1].utc_offset_seconds
Now == nowUTC[1]
Res == result[1]

\* the extremum conditions of the specification at index i (1-based)
HighAt(i) == Heights[i] > Heights[i - 1] /\ Heights[i] >= Heights[i + 1]
LowAt(i) == Heights[i] < Heights[i - 1] /\ Heights[i] <= Heights[i + 1]
Extrema == { i \in 2..(Len(Heights) - 1) : HighAt(i) \/ LowAt(i) }
\* the k-th extremum in series order
Extremum(k) == CHOOSE i \in Extrema : Cardinality({ j \in Extrema : j < i }) = k - 1
\* the local wall-clock value of an event, in milliseconds
LocalMs(e) == e.time + UtcOffset * MsPerSecond
Future == { k \in DOMAIN allEvents : allEvents[k].time > Now }
Past == { k \in DOMAIN allEvents : allEvents[k].time <= Now }
Today == (Now + UtcOffset * MsPerSecond) \div MsPerDay
Before(s, t) ==
  \/ s.day < t.day
  \/ s.day = t.day /\ s.hour < t.hour
  \/ s.day = t.day /\ s.hour = t.hour /\ s.minute < t.minute
Range(seq) == { seq[k] : k \in DOMAIN seq }
Ascending(seq) == \A j, k \in DOMAIN seq : j < k => Before(seq[j], seq[k])

\* C1: findHighLowTides emits exactly one event per interior index that is a
\* high (greater than the previous sample, not less than the next) or a low
\* (less than the previous, not greater than the next), with that kind and in
\* series order, and nothing for any other index; fewer than 3 samples,
\* strictly monotonic and all-equal series give no event.
C1_ExtractExactlyTheExtrema ==
  pc = "returned" =>
    /\ Len(allEvents) = Cardinality(Extrema)
    /\ \A k \in DOMAIN allEvents :
         /\ allEvents[k].type = (IF HighAt(Extremum(k)) THEN "high" ELSE "low")
         /\ Abs(LocalMs(allEvents[k]) - parseUTC(Times[Extremum(k)])) < MsPerHour
    /\ Len(Heights) < 3 => allEvents = << >>
    /\ (\A i \in 2..Len(Heights) : Heights[i] > Heights[i - 1]) => allEvents = << >>
    /\ (\A i \in 2..Len(Heights) : Heights[i] < Heights[i - 1]) => allEvents = << >>
    /\ (\A i \in 2..Len(Heights) : Heights[i] = Heights[i - 1]) => allEvents = << >>

C1_Witness ==
  /\ pc = "returned"
  /\ Len(allEvents) = 2
  /\ allEvents[1].type = "high"
  /\ allEvents[2].type = "low"
  /\ Extrema = {2, 3}

\* C2: nextTide is the event with the smallest absolute instant among the
\* events whose instant is strictly greater than now, with that event's kind
\* and refined local time string; it is null exactly when there is no such
\* event.
C2_NextTideIsEarliestFuture ==
  pc = "returned" =>
    IF Future = {}
      THEN Res.nextTide = Null
      ELSE \E k \in Future :
             /\ \A j \in Future \ {k} : allEvents[k].time < allEvents[j].time
             /\ Res.nextTide = Some([type |-> allEvents[k].type,
                                     time |-> allEvents[k].localTimeStr])

C2_Witness ==
  /\ pc = "returned"
  /\ Res.nextTide # Null
  /\ Future # {}
  /\ Past # {}
  /\ Res.nextTide[1].time = allEvents[2].localTimeStr

\* C3: when nextTide is non-null the status is Rising if its kind is high and
\* Falling if its kind is low, and nothing else.
C3_TrendFollowsNextTide ==
  (pc = "returned" /\ Res.nextTide # Null) =>
    /\ Res.nextTide[1].type = "high" => Res.status = Rising
    /\ Res.nextTide[1].type = "low" => Res.status = Falling
    /\ Res.status \in {Rising, Falling}

C3_Witness ==
  /\ pc = "returned"
  /\ Res.nextTide # Null
  /\ Res.nextTide[1].type = "high"
  /\ Res.status = Rising

\* C4 as stated: when no event has instant > now, nextTide is null and the
\* status is Rising or Falling, taken from the event with the greatest
\* instant <= now (Falling after a high, Rising after a low), for every event
\* list the extractor can produce.
C4_Original ==
  (pc = "returned" /\ Future = {}) =>
    /\ Res.nextTide = Null
    /\ Res.status \in {Rising, Falling}
    /\ \E k \in Past :
         /\ \A j \in Past : allEvents[j].time <= allEvents[k].time
         /\ Res.status = (IF allEvents[k].type = "high" THEN Falling ELSE Rising)

\* C4 (amended): when no event has instant > now, nextTide is null; if the
\* event list is not empty the status is taken from the event with the
\* greatest instant <= now (Falling after a high, Rising after a low); if the
\* event list is empty the status is Unknown.
C4_FallbackTrend ==
  (pc = "returned" /\ Future = {}) =>
    /\ Res.nextTide = Null
    /\ IF allEvents = << >>
         THEN Res.status = Unknown
         ELSE \E k \in Past :
                /\ \A j \in Past \ {k} : allEvents[j].time < allEvents[k].time
                /\ Res.status =
                     (IF allEvents[k].type = "high" THEN Falling ELSE Rising)

C4_Witness ==
  /\ pc = "returned"
  /\ Future = {}
  /\ Len(allEvents) >= 2
  /\ Res.status = Falling

C6_Original ==
  pc = "returned" =>
    \A i \in Extrema :
      LET o == interpolateTrend(Heights[i - 1], Heights[i], Heights[i + 1], Quantum)
      IN  /\ Abs(o.num) < o.den
          /\ Heights[i - 1] = Heights[i + 1] => o.num = 0
          /\ Heights[i - 1] # Heights[i + 1] => o.num # 0

\* C6 (amended): at every classified index the vertex offset is strictly
\* within (-1, 1) hours; it is 0 when height[i-1] = height[i+1] and whenever
\* |a| < 1e-10, and nonzero when height[i-1] # height[i+1] and |a| >= 1e-10;
\* the refined time of the event is less than one hour from its sample's.
C6_OffsetWithinOneHour ==
  pc = "returned" =>
    /\ \A i \in Extrema :
         LET o == interpolateTrend(Heights[i - 1], Heights[i], Heights[i + 1], Quantum)
             small == aNegligible(Heights[i - 1] + Heights[i + 1] - 2 * Heights[i],
                                  Quantum)
         IN  /\ Abs(o.num) < o.den
             /\ (Heights[i - 1] = Heights[i + 1] \/ small) => o.num = 0
             /\ (Heights[i - 1] # Heights[i + 1] /\ ~small) => o.num # 0
    /\ Len(allEvents) = Cardinality(Extrema)
    /\ \A k \in DOMAIN allEvents :
         Abs(LocalMs(allEvents[k]) - parseUTC(Times[Extremum(k)])) < MsPerHour

C6_Witness ==
  /\ pc = "returned"
  /\ Quantum = 1
  /\ \E i \in Extrema :
       /\ Heights[i - 1] # Heights[i + 1]
       /\ interpolateTrend(Heights[i - 1], Heights[i], Heights[i + 1], Quantum).num = 0
  /\ \E i \in Extrema :
       interpolateTrend(Heights[i - 1], Heights[i], Heights[i + 1], Quantum).num # 0

InScenario ==
  /\ pc = "returned"
  /\ marineResponse[1].hourly = ScenarioHourly
  /\ UtcOffset = 3600
  /\ LocalMs([time |-> Now]) = parseUTC(T(2, 4, 30))

\* C7 as stated: in the scenario the extractor emits a high at index 3 whose
\* refined local time is 03:xx and a low at index 6 whose refined local time
\* is 06:xx, the status is Falling and nextTide is that low.
C7_Original ==
  InScenario =>
    /\ Len(allEvents) = 2
    /\ Extrema = {4, 7}
    /\ allEvents[1].type = "high"
    /\ allEvents[1].localTimeStr.day = 2
    /\ allEvents[1].localTimeStr.hour = 3
    /\ allEvents[2].type = "low"
    /\ allEvents[2].localTimeStr.day = 2
    /\ allEvents[2].localTimeStr.hour = 6
    /\ Res.status = Falling
    /\ Res.nextTide = Some([type |-> "low", time |-> allEvents[2].localTimeStr])

\* C7 (amended): in the scenario the extractor emits exactly two events, a
\* high at index 3 whose refined local time is 02:42 (offset -0.3 h from
\* 03:00) and a low at index 6 whose refined local time is 06:10; the status
\* is Falling and nextTide is the low with time 06:10.
C7_Scenario ==
  InScenario =>
    /\ Len(allEvents) = 2
    /\ Extrema = {4, 7}
    /\ allEvents[1].type = "high"
    /\ allEvents[1].localTimeStr = T(2, 2, 42)
    /\ allEvents[2].type = "low"
    /\ allEvents[2].localTimeStr = T(2, 6, 10)
    /\ Res.status = Falling
    /\ Res.nextTide = Some([type |-> "low", time |-> T(2, 6, 10)])

C7_Witness == InScenario /\ Res.nextTide # Null

\* the row of today in a daily table, if the table has one
HasToday(daily) ==
  /\ daily # Null
  /\ daily[1].time # Null
  /\ \E j \in DOMAIN daily[1].time[1] : daily[1].time[1][j] = Today
Expected(daily, field) ==
  IF HasToday(daily) /\ daily[1][field] # Null
    THEN Some(daily[1][field][1][CHOOSE j \in DOMAIN daily[1].time[1] :
                                    daily[1].time[1][j] = Today])
    ELSE Null

\* C8: the two daily tables are joined independently by exact match of
\* today's key: without the key (or the table) in the marine table
\* maxWaveHeight is null, without it in the forecast table maxWindSpeed,
\* sunrise and sunset are null; a Result is returned all the same, a missing
\* field is never 0 and a present value is passed through unchanged.
C8_DailyJoin ==
  pc = "returned" =>
    /\ result # Null /\ error = Null
    /\ ~HasToday(marineResponse[1].daily) => Res.maxWaveHeight = Null
    /\ ~HasToday(forecastResponse[1].daily) =>
         /\ Res.maxWindSpeed = Null
         /\ Res.sunrise = Null
         /\ Res.sunset = Null
    /\ Res.maxWaveHeight = Expected(marineResponse[1].daily, "wave_height_max")
    /\ Res.maxWindSpeed = Expected(forecastResponse[1].daily, "wind_speed_10m_max")
    /\ Res.sunrise = Expected(forecastResponse[1].daily, "sunrise")
    /\ Res.sunset = Expected(forecastResponse[1].daily, "sunset")
    /\ DOMAIN Res.highTides = 1..Len(Res.highTides)
    /\ DOMAIN Res.lowTides = 1..Len(Res.lowTides)

C8_Witness ==
  /\ pc = "returned"
  /\ ~HasToday(marineResponse[1].daily)
  /\ ~HasToday(forecastResponse[1].daily)
  /\ forecastResponse[1].daily # Null
  /\ Res.maxWaveHeight = Null
  /\ Res.sunrise = Null

\* C9: both requests are issued together and a Result is produced only after
\* both have been fulfilled, in whatever order; if either is rejected no
\* Result is produced and the call throws the Tide API error.
C9_JoinBeforeResult ==
  /\ pc # "idle" => (marine # "none" /\ forecast # "none")
  /\ result # Null => (marine = "fulfilled" /\ forecast = "fulfilled")
  /\ (marine = "rejected" \/ forecast = "rejected") =>
       (result = Null /\ pc \in {"awaiting", "thrown"})
  /\ pc = "thrown" =>
       /\ error = Some("Tide API error")
       /\ marine = "rejected" \/ forecast = "rejected"
  /\ pc = "returned" => (result # Null /\ error = Null)

C9_Witness ==
  /\ pc = "thrown"
  /\ forecast = "fulfilled"
  /\ marine = "rejected"

\* the cache object stored in the file ({} when there is no file)
fileCache(file) == IF file # Null THEN file[1] ELSE emptyCache

\* C10: the cache file is append-only under every interleaving of
\* getCoordinates calls: a key that is in the file stays in it, with the
\* same value, in every later state of the file.
C10_CacheAppendOnly ==
  [][\A k \in DOMAIN fileCache(cacheFile) :
        /\ k \in DOMAIN fileCache(cacheFile')
        /\ fileCache(cacheFile')[k] = fileCache(cacheFile)[k]]_vars

====
